---- MODULE Spec2Model ----
(***************************************************************************)
(* Model of MapComponent (src/unnamed/part_000): a React component that    *)
(* owns a Leaflet map, a GeoJSON boundary overlay loaded from /cn.json, a  *)
(* panel of location buttons and an IntersectionObserver that shows the    *)
(* panel while the container is more than half visible.                    *)
(*                                                                         *)
(* Coordinates are scaled by 10^4 and opacities by 10 to stay in integers. *)
(***************************************************************************)
EXTENDS Integers, Sequences, FiniteSets, TLC

\* ---------------------------------------------------------------- bounds
\* largest number of boundary features in the geometry document
MaxFeatures == 2
\* largest number of times the map effect is set up on one component instance
MaxMounts == 2

\* ------------------------------------------------------- types and constants
\* `adcode?: number`: the value read from a feature that carries no area code
Undefined == -1

\* area codes a feature of the geometry document may carry: none, the falsy 0,
\* and the two codes the presets name
AdCodes == {Undefined, 0, 520300, 310110}

\* defaultStyle()
defaultStyle ==
    [fillColor |-> "transparent", weight |-> 1, opacity |-> 10,
     color |-> "#333", fillOpacity |-> 0]

\* highlightStyle()
highlightStyle ==
    [fillColor |-> "#ff0000", weight |-> 2, opacity |-> 10,
     color |-> "#000", fillOpacity |-> 7]

\* the partial options the mouseover handler passes to setStyle
hoverOptions == [weight |-> 2, color |-> "#666"]

\* L.Path.setStyle: the given options are merged over the path's options
setStyle(options, s) ==
    [k \in DOMAIN options |-> IF k \in DOMAIN s THEN s[k] ELSE options[k]]

\* the location presets, in button order
locations ==
    << [id |-> "global", coords |-> <<350000, 1050000>>, zoom |-> 2, areaCode |-> Undefined],
       [id |-> "china",  coords |-> <<358617, 1041954>>, zoom |-> 4, areaCode |-> Undefined],
       [id |-> "zunyi",  coords |-> <<277274, 1069723>>, zoom |-> 6, areaCode |-> 520300],
       [id |-> "yangpu", coords |-> <<312626, 1215369>>, zoom |-> 8, areaCode |-> 310110] >>

Locations == {locations[i] : i \in DOMAIN locations}

\* the view L.map(...).setView([35.8617, 104.1954], 4) starts with
initialView == [coords |-> <<358617, 1041954>>, zoom |-> 4]

\* visible fractions of the container, in percent, that scrolling produces
Ratios == {0, 50, 80}

\* the observer's only threshold (0.5), in percent
threshold == 50

\* the ratio (0.5), in percent, the callback compares intersectionRatio with
visibleAbove == 50

VARIABLES
    geoData,        \* the geometry document served at /cn.json: Seq(AdCodes)
    phase,          \* "rendered" (effects not yet run), "mounted", "unmounted"
    mounts,         \* how many times the map effect has been set up
    mapRef,         \* mapRef.current: 0 = null, else the id of a map
    removed,        \* ids of the maps on which map.remove() has run
    fetch,          \* per map id: state of the loadGeoJSON started for it
    geojsonRef,     \* geojsonRef.current: 0 = null, else id of the map the overlay was added to
    style,          \* path options of each layer of the overlay in geojsonRef
    selectedLayer,  \* geojson.selectedLayer: 0 = null/undefined, else a layer index
    view,           \* the target of the live map's view
    flying,         \* a flyTo animation is in flight
    isMapVisible,   \* the React state that decides whether the panel renders
    ratio,          \* the container's current intersection ratio, in percent
    observing,      \* the observer has the container registered
    prevEntry,      \* the observer's previousThresholdIndex / previousIsIntersecting
    uncaught,       \* an error escaped a handler
    logged,         \* console.error was called by loadGeoJSON
    selectionMade,  \* history: handleLocationClick has styled the overlay in geojsonRef
    last            \* history: the handler that ran last, its argument, whether it acted

vars == <<geoData, phase, mounts, mapRef, removed, fetch, geojsonRef, style,
          selectedLayer, view, flying, isMapVisible, ratio, observing,
          prevEntry, uncaught, logged, selectionMade, last>>

Features == DOMAIN geoData

RECURSIVE SeqsUpTo(_)
SeqsUpTo(n) ==
    IF n = 0 THEN {<<>>}
    ELSE LET S == SeqsUpTo(n - 1)
         IN  S \cup {Append(s, c) : s \in {t \in S : Len(t) = n - 1}, c \in AdCodes}

\* a history entry: handler name, location id ("" if none), layer index (0 if
\* none), whether the handler got past its guard, and (for a click) whether a
\* fly animation was in flight when it ran
Op(op, loc, layer, acted) ==
    [op |-> op, loc |-> loc, layer |-> layer, acted |-> acted,
     busy |-> op = "click" /\ flying]

\* the history entry of the steps no handler of the component runs in
Other == Op("other", "", 0, TRUE)

Init ==
    /\ geoData \in SeqsUpTo(MaxFeatures)
    /\ phase = "rendered"
    /\ mounts = 0
    /\ mapRef = 0
    /\ removed = {}
    /\ fetch = [g \in 1..MaxMounts |-> "idle"]
    /\ geojsonRef = 0
    /\ style = <<>>
    /\ selectedLayer = 0
    /\ view = initialView
    /\ flying = FALSE
    /\ isMapVisible = TRUE
    /\ ratio \in Ratios
    /\ observing = FALSE
    /\ prevEntry = [index |-> -1, isIntersecting |-> FALSE]
    /\ uncaught = FALSE
    /\ logged = FALSE
    /\ selectionMade = FALSE
    /\ last = Op("init", "", 0, FALSE)

\* ------------------------------------------------------------ mount / unmount
\* Both effects are set up in one flush: the map effect (guarded against a
\* second initialisation), which starts loadGeoJSON, and the observer effect.
Mount ==
    /\ phase \in {"rendered", "unmounted"}
    /\ mounts < MaxMounts
    /\ phase' = "mounted"
    /\ IF mapRef # 0
         THEN UNCHANGED <<mounts, mapRef, fetch, view, flying>>
         ELSE /\ mounts' = mounts + 1
              /\ mapRef' = mounts + 1
              /\ fetch' = [fetch EXCEPT ![mounts + 1] = "pending"]
              /\ view' = initialView
              /\ flying' = FALSE
    /\ observing' = TRUE
    /\ last' = Op("mount", "", 0, mapRef = 0)
    /\ UNCHANGED <<geoData, removed, prevEntry, geojsonRef, style, selectedLayer,
                   isMapVisible, ratio, uncaught, logged, selectionMade>>

\* variant: the observer cleanup does not call observer.unobserve
Unmount_noUnobserve ==
    /\ phase = "mounted"
    /\ phase' = "unmounted"
    /\ removed' = removed \cup {mapRef}
    /\ mapRef' = 0
    /\ view' = initialView
    /\ flying' = FALSE
    /\ prevEntry' = [index |-> -1, isIntersecting |-> FALSE]
    /\ last' = Op("unmount", "", 0, TRUE)
    /\ UNCHANGED <<geoData, mounts, fetch, geojsonRef, style, selectedLayer,
                   isMapVisible, ratio, observing, uncaught, logged,
                   selectionMade>>

\* variant: the cleanup clears the reference but does not call map.remove()
Unmount_noRemove ==
    /\ phase = "mounted"
    /\ phase' = "unmounted"
    /\ mapRef' = 0
    /\ view' = initialView
    /\ flying' = FALSE
    /\ observing' = FALSE
    /\ prevEntry' = [index |-> -1, isIntersecting |-> FALSE]
    /\ last' = Op("unmount", "", 0, TRUE)
    /\ UNCHANGED <<geoData, mounts, removed, fetch, geojsonRef, style,
                   selectedLayer, isMapVisible, ratio, uncaught, logged,
                   selectionMade>>

\* Both cleanups: map.remove(); mapRef.current = null; observer.unobserve.
\* geojsonRef.current is left as it is.  The map's view and the observer's
\* registration go with their objects: with no live map `view` holds the
\* view the next map starts with, and the next observer starts afresh.
Unmount ==
    /\ phase = "mounted"
    /\ phase' = "unmounted"
    /\ removed' = removed \cup {mapRef}
    /\ mapRef' = 0
    /\ view' = initialView
    /\ flying' = FALSE
    /\ observing' = FALSE
    /\ prevEntry' = [index |-> -1, isIntersecting |-> FALSE]
    /\ last' = Op("unmount", "", 0, TRUE)
    /\ UNCHANGED <<geoData, mounts, fetch, geojsonRef, style, selectedLayer,
                   isMapVisible, ratio, uncaught, logged, selectionMade>>

\* ------------------------------------------------------------- loadGeoJSON
\* fetch rejects, the response is not ok, or response.json() rejects: the
\* catch block logs and nothing else changes.
FetchFail(g) ==
    /\ fetch[g] = "pending"
    /\ fetch' = [fetch EXCEPT ![g] = "failed"]
    /\ logged' = TRUE
    /\ last' = Other
    /\ UNCHANGED <<geoData, phase, mounts, mapRef, removed, geojsonRef, style,
                   selectedLayer, view, flying, isMapVisible, ratio, observing,
                   prevEntry, uncaught, selectionMade>>

\* L.geoJson(...).addTo(map) throws when a path layer is added to a map whose
\* panes map.remove() has dropped; a layer group without layers adds nothing
\* and does not throw.
addToThrows(g) == g \in removed /\ Len(geoData) > 0

\* The document arrives: the overlay is built with every layer in default
\* style, added to the map this load was started for, and stored.
FetchOk(g) ==
    /\ fetch[g] = "pending"
    /\ IF addToThrows(g)
         THEN /\ fetch' = [fetch EXCEPT ![g] = "threw"]
              /\ logged' = TRUE
              /\ UNCHANGED <<geojsonRef, style, selectedLayer, selectionMade>>
         ELSE /\ fetch' = [fetch EXCEPT ![g] = "done"]
              /\ geojsonRef' = g
              /\ style' = [i \in Features |-> defaultStyle]
              /\ selectedLayer' = 0
              /\ selectionMade' = FALSE
              /\ UNCHANGED logged
    /\ last' = Op("fetchOk", "", 0, ~addToThrows(g))
    /\ UNCHANGED <<geoData, phase, mounts, mapRef, removed, view, flying,
                   isMapVisible, ratio, observing, prevEntry, uncaught>>

\* ------------------------------------------------------ handleLocationClick
\* variant: the guard tests the map only
GuardPasses_mapOnly == mapRef # 0

\* if (!map || !geojson) return;
GuardPasses == ~(mapRef = 0 \/ geojsonRef = 0)

\* JavaScript truthiness of an adcode: undefined and 0 are falsy
Truthy(adcode) == adcode # Undefined /\ adcode # 0

\* variant: the country preset is matched by area code like the others
ShouldHighlight_byCodeOnly(location, adcode) ==
    /\ Truthy(adcode)
    /\ adcode = location.areaCode

\* variant: the `if (!adcode) return` line is missing
ShouldHighlight_noGuard(location, adcode) ==
    location.id = "china" \/ adcode = location.areaCode

\* the body of the eachLayer callback: does this layer get highlightStyle?
ShouldHighlight(location, adcode) ==
    /\ Truthy(adcode)
    /\ (location.id = "china" \/ adcode = location.areaCode)

\* variant: the iteration stops at the first layer that matches
Highlighted_firstOnly(location) ==
    LET S == IF location.id # "global"
               THEN {i \in Features : ShouldHighlight(location, geoData[i])}
               ELSE {}
    IN  {i \in S : \A j \in S : i <= j}

\* the layers the call puts into highlightStyle
Highlighted(location) ==
    IF location.id # "global"
      THEN {i \in Features : ShouldHighlight(location, geoData[i])}
      ELSE {}

\* variant: the highlighted layer is not recorded in geojson.selectedLayer
LastOf_unset(S) == 0

\* eachLayer visits the layers in order, so the last one highlighted stays in
\* geojson.selectedLayer
LastOf(S) == IF S = {} THEN 0 ELSE CHOOSE i \in S : \A j \in S : j <= i

\* variant: the styles are not reset before the new highlight is applied
ResetAll_skip == style

\* geojson.setStyle(defaultStyle()): every layer takes the default options
ResetAll == [i \in DOMAIN style |-> setStyle(style[i], defaultStyle)]

\* variant: a call made during an animation does not redirect it
flyTo_unlessInFlight(location) ==
    IF flying THEN view ELSE [coords |-> location.coords, zoom |-> location.zoom]

\* map.flyTo(location.coords, location.zoom, ...)
flyTo(location) == [coords |-> location.coords, zoom |-> location.zoom]

\* A button of the panel is clicked.
handleLocationClick(location) ==
    /\ phase \in {"rendered", "mounted"}
    /\ isMapVisible
    /\ last' = Op("click", location.id, 0, GuardPasses)
    /\ IF ~GuardPasses
         THEN UNCHANGED <<style, selectedLayer, view, flying, uncaught, selectionMade>>
         ELSE IF geojsonRef = 0
           THEN \* geojson.setStyle on null
                /\ uncaught' = TRUE
                /\ UNCHANGED <<style, selectedLayer, view, flying, selectionMade>>
           ELSE /\ selectionMade' = TRUE
                /\ style' = [i \in DOMAIN style |->
                       IF i \in Highlighted(location)
                         THEN setStyle(ResetAll[i], highlightStyle)
                         ELSE ResetAll[i]]
                /\ selectedLayer' = LastOf(Highlighted(location))
                /\ IF mapRef = 0
                     THEN \* map.flyTo on null
                          /\ uncaught' = TRUE
                          /\ UNCHANGED <<view, flying>>
                     ELSE /\ view' = flyTo(location)
                          /\ flying' = TRUE
                          /\ UNCHANGED uncaught
    /\ UNCHANGED <<geoData, phase, mounts, mapRef, removed, fetch, geojsonRef,
                   isMapVisible, ratio, observing, prevEntry, logged>>

\* the fly animation reaches its target
FlyEnd ==
    /\ flying
    /\ flying' = FALSE
    /\ last' = Other
    /\ UNCHANGED <<geoData, phase, mounts, mapRef, removed, fetch, geojsonRef,
                   style, selectedLayer, view, isMapVisible, ratio, observing,
                   prevEntry, uncaught, logged, selectionMade>>

\* ------------------------------------------------------- per-layer handlers
\* pointer events reach the layers of an overlay that sits on the live map
OverlayOnLiveMap == mapRef # 0 /\ geojsonRef = mapRef

\* variant: the handlers do not look at selectedLayer
HoverAllowed_always == TRUE

\* variant: the test of selectedLayer is inverted
HoverAllowed_never == ~(geojsonRef = 0 \/ selectedLayer = 0)

\* if (!geojsonRef.current?.selectedLayer)
HoverAllowed == geojsonRef = 0 \/ selectedLayer = 0

\* variant: the hover options are applied to the whole overlay
mouseover_wholeOverlay(i) ==
    /\ OverlayOnLiveMap
    /\ i \in DOMAIN style
    /\ last' = Op("mouseover", "", i, HoverAllowed)
    /\ IF HoverAllowed
         THEN style' = [j \in DOMAIN style |-> setStyle(style[j], hoverOptions)]
         ELSE UNCHANGED style
    /\ UNCHANGED <<geoData, phase, mounts, mapRef, removed, fetch, geojsonRef,
                   selectedLayer, view, flying, isMapVisible, ratio, observing,
                   prevEntry, uncaught, logged, selectionMade>>

mouseover(i) ==
    /\ OverlayOnLiveMap
    /\ i \in DOMAIN style
    /\ last' = Op("mouseover", "", i, HoverAllowed)
    /\ IF HoverAllowed
         THEN style' = [style EXCEPT ![i] = setStyle(style[i], hoverOptions)]
         ELSE UNCHANGED style
    /\ UNCHANGED <<geoData, phase, mounts, mapRef, removed, fetch, geojsonRef,
                   selectedLayer, view, flying, isMapVisible, ratio, observing,
                   prevEntry, uncaught, logged, selectionMade>>

mouseout(i) ==
    /\ OverlayOnLiveMap
    /\ i \in DOMAIN style
    /\ last' = Op("mouseout", "", 0, HoverAllowed)
    /\ IF HoverAllowed
         THEN style' = [j \in DOMAIN style |-> setStyle(style[j], defaultStyle)]
         ELSE UNCHANGED style
    /\ UNCHANGED <<geoData, phase, mounts, mapRef, removed, fetch, geojsonRef,
                   selectedLayer, view, flying, isMapVisible, ratio, observing,
                   prevEntry, uncaught, logged, selectionMade>>

\* ------------------------------------------------------ intersection observer
\* the page scrolls: the container's visible fraction changes
Scroll(r) ==
    /\ phase = "mounted"
    /\ r # ratio
    /\ ratio' = r
    /\ last' = Other
    /\ UNCHANGED <<geoData, phase, mounts, mapRef, removed, fetch, geojsonRef,
                   style, selectedLayer, view, flying, isMapVisible, observing,
                   prevEntry, uncaught, logged, selectionMade>>

\* what the observer would report for the current ratio
currentEntry ==
    [index |-> IF ratio >= threshold THEN 1 ELSE 0, isIntersecting |-> ratio > 0]

\* ([entry]) => setIsMapVisible(entry.isIntersecting && entry.intersectionRatio > 0.5)
entryVisible(r) == r > 0 /\ r > visibleAbove

\* The observer delivers an entry when the threshold index or isIntersecting
\* differs from what it last reported for the container.
ObserverCallback ==
    /\ observing
    /\ currentEntry # prevEntry
    /\ prevEntry' = currentEntry
    /\ isMapVisible' = entryVisible(ratio)
    /\ last' = Other
    /\ UNCHANGED <<geoData, phase, mounts, mapRef, removed, fetch, geojsonRef,
                   style, selectedLayer, view, flying, ratio, observing,
                   uncaught, logged, selectionMade>>

Next ==
    \/ Mount
    \/ Unmount
    \/ \E g \in 1..MaxMounts : FetchFail(g)
    \/ \E g \in 1..MaxMounts : FetchOk(g)
    \/ \E location \in Locations : handleLocationClick(location)
    \/ FlyEnd
    \/ \E i \in 1..MaxFeatures : mouseover(i)
    \/ \E i \in 1..MaxFeatures : mouseout(i)
    \/ \E r \in Ratios : Scroll(r)
    \/ ObserverCallback

Spec == Init /\ [][Next]_vars

\* The component on a page that is not scrolled: the observer never reports,
\* so the panel stays rendered and a click is possible at any time.  The
\* steps left out change only ratio, prevEntry and isMapVisible, and
\* isMapVisible only ever disables clicks, so every state of the map, the
\* overlay and the history that Spec reaches is reached here as well.
NextMap ==
    \/ Mount
    \/ Unmount
    \/ \E g \in 1..MaxMounts : FetchFail(g)
    \/ \E g \in 1..MaxMounts : FetchOk(g)
    \/ \E location \in Locations : handleLocationClick(location)
    \/ FlyEnd
    \/ \E i \in 1..MaxFeatures : mouseover(i)
    \/ \E i \in 1..MaxFeatures : mouseout(i)

SpecMap == Init /\ [][NextMap]_vars

\* The panel alone: mounting, scrolling, the observer and the buttons.  The
\* steps left out (the load, the animation, the pointer events on layers)
\* neither read nor change phase, ratio, observing, prevEntry or isMapVisible.
NextPanel ==
    \/ Mount
    \/ Unmount
    \/ \E r \in Ratios : Scroll(r)
    \/ ObserverCallback
    \/ \E location \in Locations : handleLocationClick(location)

SpecPanel == Init /\ [][NextPanel]_vars

\* =================================================================== claims
\* the three style states of a boundary feature
StyleName(s) ==
    IF s = defaultStyle THEN "default"
    ELSE IF s = highlightStyle THEN "selected"
    ELSE IF s = [defaultStyle EXCEPT !.weight = 2, !.color = "#666"] THEN "hover"
    ELSE "other"

LocById(id) == CHOOSE l \in Locations : l.id = id

\* the last handler was a click on `id` that got past the guard
Selected(id) == last.op = "click" /\ last.loc = id /\ last.acted

AllDefault == \A i \in DOMAIN style : StyleName(style[i]) = "default"

\* the feature carries an area code and it is the preset's
CodeMatches(l, i) == geoData[i] # Undefined /\ geoData[i] = l.areaCode

\* the coordinates and zoom of a preset
Target(l) == [coords |-> l.coords, zoom |-> l.zoom]

\* C1: after selectLocation of a preset other than "country" got past its
\* guard, the features in selected style are exactly those whose area code
\* equals the preset's areaCode, and every other feature is in default style.
C1_ExactMatchSelected ==
    \A l \in Locations :
        (l.id # "china" /\ Selected(l.id)) =>
            \A i \in DOMAIN style :
                StyleName(style[i]) =
                    IF CodeMatches(l, i) THEN "selected" ELSE "default"

\* two features share the preset's code and both are selected, a third kind of
\* feature stays default
C1_Witness ==
    /\ Selected("zunyi")
    /\ Len(geoData) = 2
    /\ \/ (geoData = <<520300, 520300>> /\ \A i \in DOMAIN style : StyleName(style[i]) = "selected")
       \/ (geoData = <<520300, 310110>> /\ StyleName(style[1]) = "selected"
                                        /\ StyleName(style[2]) = "default")

C3_GlobalClears ==
    Selected("global") => (AllDefault /\ selectedLayer = 0)

C3_Witness ==
    /\ Selected("global")
    /\ Len(geoData) > 0
    /\ \E i \in Features : geoData[i] \in {520300, 310110}
    /\ AllDefault
    /\ selectedLayer = 0

\* C4 as stated: once any selectLocation call has styled the overlay, no
\* feature is put into hover style.
C4_NoHoverAfterAnySelection ==
    selectionMade => \A i \in DOMAIN style : StyleName(style[i]) # "hover"

\* C4 amended: while the back-reference is non-empty (a selection highlighted
\* at least one feature), a pointer-enter on a feature that is not selected
\* leaves the styles unchanged, and that feature stays in default style.
C4_SelectionSuppressesHover ==
    [][\A i \in 1..MaxFeatures :
         ( /\ last'.op = "mouseover"
           /\ last'.layer = i
           /\ geojsonRef # 0
           /\ selectedLayer # 0
           /\ StyleName(style[i]) # "selected" )
         => (style' = style /\ StyleName(style'[i]) = "default")]_vars

C4_Witness ==
    /\ last.op = "mouseover"
    /\ ~last.acted
    /\ selectionMade
    /\ selectedLayer # 0
    /\ StyleName(style[last.layer]) = "default"

\* C5: while the back-reference is empty, pointer-enter puts the entered
\* feature into hover style and pointer-leave puts every feature into default
\* style.
C5_HoverWhenNothingSelected ==
    /\ (last.op = "mouseover" /\ selectedLayer = 0) =>
           StyleName(style[last.layer]) = "hover"
    /\ (last.op = "mouseout" /\ selectedLayer = 0) => AllDefault

C5_Witness ==
    /\ last.op = "mouseover"
    /\ selectedLayer = 0
    /\ StyleName(style[last.layer]) = "hover"

\* C6 as stated: after the geometry fetch of the live map has failed, a click
\* on a preset raises no error and sets the viewport animation to the preset's
\* coordinates and zoom.
C6_FliesAfterFetchFailure ==
    \A l \in Locations :
        ( /\ mapRef # 0
          /\ fetch[mapRef] = "failed"
          /\ last.op = "click"
          /\ last.loc = l.id )
        => (~uncaught /\ view = Target(l) /\ flying)

\* C7: selectLocation invoked while the map or the overlay is missing changes
\* neither the styles, the back-reference, the viewport target nor the
\* animation, and raises no error.
C7_NoOpBeforeLoaded ==
    [][( /\ (mapRef = 0 \/ geojsonRef = 0)
         /\ last'.op = "click" )
       => ( /\ UNCHANGED <<style, selectedLayer, view, flying, mapRef, geojsonRef>>
            /\ ~uncaught' )]_vars

C7_Witness ==
    /\ last.op = "click"
    /\ ~last.acted
    /\ mapRef # 0
    /\ geojsonRef = 0
    /\ fetch[mapRef] = "pending"
    /\ view = initialView
    /\ ~uncaught

\* C8 as stated (at rest, i.e. when the observer has reported the current
\* ratio): while mounted, the panel is rendered only if the container's
\* intersection ratio is strictly greater than 50%.
C8_PanelOnlyAboveHalf ==
    (phase = "mounted" /\ observing /\ prevEntry = currentEntry) =>
        (isMapVisible => ratio > 50)

\* C9: a selectLocation call that gets past its guard, also one made during
\* an animation, applies the reset and the highlight and sets the viewport
\* target to the preset's coordinates and zoom; nothing but a selection, a
\* new map or the removal of the map changes the target.
C9_TargetFollowsLastSelection ==
    [][ /\ (last'.op = "click" /\ last'.acted) =>
             LET l == LocById(last'.loc) IN
             /\ view' = Target(l)
             /\ flying'
             /\ \A i \in DOMAIN style' :
                    StyleName(style'[i]) =
                        IF geoData[i] \notin {Undefined, 0}
                           /\ (l.id = "china" \/ geoData[i] = l.areaCode)
                          THEN "selected" ELSE "default"
        /\ (last'.op \notin {"click", "mount", "unmount"}) => view' = view ]_vars

\* a selection made while the animation of an earlier, different one was
\* still in flight
C9_Witness ==
    /\ last.op = "click"
    /\ last.acted
    /\ last.busy
    /\ last.loc = "yangpu"
    /\ view = Target(LocById("yangpu"))
    /\ flying
    /\ \E i \in DOMAIN style : StyleName(style[i]) = "selected"

\* C10: a feature without an area code is never in selected style and never
\* the back-reference, and no selection raises an error.
C10_UncodedNeverSelected ==
    /\ ~uncaught
    /\ \A i \in DOMAIN style :
           geoData[i] = Undefined =>
               (StyleName(style[i]) # "selected" /\ selectedLayer # i)

C10_Witness ==
    /\ Selected("china")
    /\ Len(geoData) = 2
    /\ geoData[2] = Undefined
    /\ StyleName(style[1]) = "selected"
    /\ StyleName(style[2]) = "default"
    /\ selectedLayer = 1

\* C11 as stated: when the document arrives for a map that has already been
\* removed, the result is discarded: no overlay is added to that map (so
\* addTo does not run and cannot throw on it) and geojsonRef is not set.
C11_StaleResultDiscarded ==
    [][\A g \in 1..MaxMounts :
         ( /\ g \in removed
           /\ fetch[g] = "pending"
           /\ fetch'[g] \notin {"pending", "failed"} )
         => ( /\ fetch'[g] # "threw"
              /\ geojsonRef' = geojsonRef
              /\ geojsonRef' # g )]_vars

\* the maps that were created and not removed
LiveMaps == (1..mounts) \ removed

\* C12: at most one map is live at any time; while mounted the live map is
\* the one map that mount created, and it is the one in mapRef; after unmount
\* no map is live and mapRef is empty.
C12_OneMapPerMount ==
    /\ Cardinality(LiveMaps) <= 1
    /\ phase = "mounted" => (mapRef # 0 /\ LiveMaps = {mapRef})
    /\ phase # "mounted" => (mapRef = 0 /\ LiveMaps = {})

\* mounted again after an unmount: the first map is gone, the second is live
C12_Witness ==
    /\ phase = "mounted"
    /\ mounts = 2
    /\ removed = {1}
    /\ mapRef = 2

\* C13 as stated: whenever a click got past the guard and styled the layers
\* of the overlay, the overlay in geojsonRef is the one added to the live map, never one of a
\* map that has been removed.
C13_StyledOverlayIsOnLiveMap ==
    (last.op = "click" /\ last.acted /\ DOMAIN style # {}) =>
        (geojsonRef = mapRef /\ geojsonRef \notin removed)

\* C14: with an overlay stored, the back-reference is non-empty exactly when
\* some feature is in selected style; a non-empty back-reference names a
\* feature in selected style; and no feature is in hover style while it is
\* non-empty.
C14_BackReferenceTracksSelection ==
    geojsonRef # 0 =>
        /\ selectedLayer # 0 <=>
               \E i \in DOMAIN style : StyleName(style[i]) = "selected"
        /\ selectedLayer # 0 =>
               /\ selectedLayer \in DOMAIN style
               /\ StyleName(style[selectedLayer]) = "selected"
               /\ \A i \in DOMAIN style : StyleName(style[i]) # "hover"

\* the country preset selected two features; the back-reference is the last
C14_Witness ==
    /\ geojsonRef # 0
    /\ Len(geoData) = 2
    /\ selectedLayer = 2
    /\ StyleName(style[1]) = "selected"
    /\ StyleName(style[2]) = "selected"

\* C15 as stated: a load is started only by a mount, for the map that mount
\* creates; a load that has ended is never started again; once the load of
\* the live map has failed with no overlay stored, none is stored for as long
\* as that map is the live one; and no error escapes the loader.
C15_FetchOncePerMountNoRetry ==
    [][ /\ \A g \in 1..MaxMounts :
             /\ fetch[g] \in {"failed", "done", "threw"} => fetch'[g] = fetch[g]
             /\ (fetch[g] # "pending" /\ fetch'[g] = "pending") =>
                    (fetch[g] = "idle" /\ mapRef = 0 /\ mapRef' = g)
        /\ ( /\ mapRef # 0
             /\ mapRef' = mapRef
             /\ fetch[mapRef] = "failed"
             /\ geojsonRef = 0 ) => geojsonRef' = 0
        /\ ~uncaught' ]_vars

\* C16: the container is observed exactly while the component is mounted,
\* and no step taken while it is unmounted changes isMapVisible.
C16_ObservationReleasedOnUnmount ==
    [][ /\ phase' = "mounted" => observing'
        /\ phase' = "unmounted" => ~observing'
        /\ phase = "unmounted" => isMapVisible' = isMapVisible ]_vars

\* unmounted with a change of the ratio that the observer never reported:
\* the panel flag still says visible although nothing is visible
C16_Witness ==
    /\ phase = "unmounted"
    /\ ~observing
    /\ ratio = 0
    /\ isMapVisible

\* C17: a pointer-enter or pointer-leave changes neither the back-reference
\* nor the viewport target, and a pointer-enter changes the style of no
\* feature but the entered one; the back-reference of a stored overlay and
\* the viewport target of a live map change only in a selectLocation call
\* that got past its guard.
C17_OnlySelectionMovesSelectionAndView ==
    [][ /\ last'.op \in {"mouseover", "mouseout"} =>
               UNCHANGED <<selectedLayer, view, flying, geojsonRef, mapRef>>
        /\ last'.op = "mouseover" =>
               \A j \in DOMAIN style :
                   j # last'.layer => style'[j] = style[j]
        /\ (geojsonRef' = geojsonRef /\ selectedLayer' # selectedLayer) =>
               (last'.op = "click" /\ last'.acted)
        /\ (mapRef # 0 /\ mapRef' = mapRef /\ view' # view) =>
               (last'.op = "click" /\ last'.acted) ]_vars

\* a pointer-enter after the "global" preset moved the view: the entered
\* feature is in hover style, the other one and the view are as they were
C17_Witness ==
    /\ last.op = "mouseover"
    /\ last.acted
    /\ last.layer = 1
    /\ Len(geoData) = 2
    /\ StyleName(style[1]) = "hover"
    /\ StyleName(style[2]) = "default"
    /\ selectedLayer = 0
    /\ view = Target(LocById("global"))

====
